---- MODULE Spec2Model ----
(***************************************************************************)
(* Model of the EDI extraction engine: EdiBase / EdiX12 (src/edi.py,       *)
(* src/x12.py).  Text is a sequence of one-character strings, so that      *)
(* str.split, slicing and strptime/strftime are computed, not assumed.     *)
(* Python values are tagged records: None, Str(text), PyInt(i), Tuple(i,j),  *)
(* failures (ElementExtractionFailure), lists and dicts of positions.      *)
(***************************************************************************)
EXTENDS Integers, Sequences, FiniteSets, TLC

\* ------------------------------------------------------------------------
\* Bounds of the model
\* ------------------------------------------------------------------------
MaxDocs == 2
MaxParts == 1
MaxErrors == 2

\* ------------------------------------------------------------------------
\* Python values
\* ------------------------------------------------------------------------
None == [kind |-> "None"]
Str(t) == [kind |-> "str", text |-> t]
PyInt(i) == [kind |-> "int", pos |-> i]
Tuple(i, j) == [kind |-> "tuple", pos |-> i, subpos |-> j]
List(items) == [kind |-> "list", items |-> items]
Dict(items) == [kind |-> "dict", items |-> items]
Entry(k, s) == [key |-> k, spec |-> s]
Rec(p, d) == [kind |-> "rec", pos |-> p, date |-> d]

\* a format string held in an attribute
Fmt(f) == [kind |-> "format", name |-> f]

IsStr(v) == v.kind = "str"
IsFailure(v) == v.kind = "failure"

\* bool(v) for the values a handler tests
Truthy(v) ==
    CASE v.kind = "None" -> FALSE
      [] v.kind = "str" -> Len(v.text) > 0
      [] OTHER -> TRUE

\* ------------------------------------------------------------------------
\* Text
\* ------------------------------------------------------------------------
Digits == <<"0", "1", "2", "3", "4", "5", "6", "7", "8", "9">>
DigitSet == {Digits[i] : i \in 1..10}
DigitVal(c) == (CHOOSE i \in 1..10 : Digits[i] = c) - 1

StartsWithAt(s, sep, i) ==
    /\ i + Len(sep) - 1 <= Len(s)
    /\ \A k \in 1..Len(sep) : s[i + k - 1] = sep[k]

\* index of the leftmost occurrence of sep at or after i, 0 when none
RECURSIVE find(_, _, _)
find(s, sep, i) ==
    IF i + Len(sep) - 1 > Len(s) THEN 0
    ELSE IF StartsWithAt(s, sep, i) THEN i
    ELSE find(s, sep, i + 1)

\* the pieces of s from i on, k being the next occurrence of sep (0: none)
RECURSIVE SplitAt(_, _, _, _)
SplitAt(s, sep, i, k) ==
    IF k = 0 THEN <<SubSeq(s, i, Len(s))>>
    ELSE <<SubSeq(s, i, k - 1)>> \o SplitAt(s, sep, k + Len(sep), find(s, sep, k + Len(sep)))
SplitFrom(s, sep, i) == SplitAt(s, sep, i, find(s, sep, i))

\* str.split(sep) for a non-empty separator
str_split(s, sep) == SplitFrom(s, sep, 1)

RECURSIVE join(_, _)
join(elems, sep) ==
    IF Len(elems) = 0 THEN <<>>
    ELSE IF Len(elems) = 1 THEN elems[1]
    ELSE elems[1] \o sep \o join(Tail(elems), sep)

\* s[:n]
Prefix(s, n) == SubSeq(s, 1, IF n < Len(s) THEN n ELSE Len(s))

\* bytes.decode('unicode_escape') on the escapes a separator may carry
RECURSIVE unicode_escape(_)
unicode_escape(s) ==
    IF Len(s) = 0 THEN <<>>
    ELSE IF s[1] = "\\" /\ Len(s) >= 2 /\ s[2] = "t"
         THEN <<"\t">> \o unicode_escape(SubSeq(s, 3, Len(s)))
    ELSE IF s[1] = "\\" /\ Len(s) >= 2 /\ s[2] = "n"
         THEN <<"\n">> \o unicode_escape(SubSeq(s, 3, Len(s)))
    ELSE IF s[1] = "\\" /\ Len(s) >= 2 /\ s[2] = "\\"
         THEN <<"\\">> \o unicode_escape(SubSeq(s, 3, Len(s)))
    ELSE <<s[1]>> \o unicode_escape(Tail(s))

\* ------------------------------------------------------------------------
\* datetime.strptime(text, fmt).strftime(out) for the formats in use
\* ------------------------------------------------------------------------
FMT_Ymd == "%Y%m%d"
FMT_ymd == "%y%m%d"
FMT_OUT == "%m-%d-%Y"

At(s, i) == IF i >= 1 /\ i <= Len(s) THEN s[i] ELSE "<end>"

\* lengths matched by the %m pattern 1[0-2]|0[1-9]|[1-9] at i, in order
MonthLens(s, i) ==
    (IF At(s, i) = "1" /\ At(s, i + 1) \in {"0", "1", "2"} THEN <<2>> ELSE <<>>)
    \o (IF At(s, i) = "0" /\ At(s, i + 1) \in (DigitSet \ {"0"}) THEN <<2>> ELSE <<>>)
    \o (IF At(s, i) \in (DigitSet \ {"0"}) THEN <<1>> ELSE <<>>)

\* lengths matched by the %d pattern 3[01]|[12]\d|0[1-9]|[1-9]| [1-9] at i
DayLens(s, i) ==
    (IF At(s, i) = "3" /\ At(s, i + 1) \in {"0", "1"} THEN <<2>> ELSE <<>>)
    \o (IF At(s, i) \in {"1", "2"} /\ At(s, i + 1) \in DigitSet THEN <<2>> ELSE <<>>)
    \o (IF At(s, i) = "0" /\ At(s, i + 1) \in (DigitSet \ {"0"}) THEN <<2>> ELSE <<>>)
    \o (IF At(s, i) \in (DigitSet \ {"0"}) THEN <<1>> ELSE <<>>)
    \o (IF At(s, i) = " " /\ At(s, i + 1) \in (DigitSet \ {"0"}) THEN <<2>> ELSE <<>>)

RECURSIVE NumVal(_)
NumVal(s) ==
    IF Len(s) = 0 THEN 0
    ELSE IF s[Len(s)] = " " THEN NumVal(SubSeq(s, 1, Len(s) - 1))
    ELSE 10 * NumVal(SubSeq(s, 1, Len(s) - 1)) + DigitVal(s[Len(s)])

IsLeap(y) == (y % 4 = 0) /\ ((y % 100 # 0) \/ (y % 400 = 0))
DaysIn(y, m) ==
    IF m \in {4, 6, 9, 11} THEN 30
    ELSE IF m = 2 THEN (IF IsLeap(y) THEN 29 ELSE 28)
    ELSE 31

NoDate == [ok |-> FALSE, y |-> 0, m |-> 0, d |-> 0]

\* the century rule of %y and the calendar check of the date constructor
Century(fmt, yraw) ==
    IF fmt = FMT_ymd THEN (IF yraw < 69 THEN 2000 + yraw ELSE 1900 + yraw) ELSE yraw
Checked(y, m, d) ==
    IF y < 1 \/ d > DaysIn(y, m) THEN NoDate ELSE [ok |-> TRUE, y |-> y, m |-> m, d |-> d]

\* a match of ylen, ml and dl characters: "unconverted data remains" when
\* it stops short of the end
Matched(s, fmt, ylen, ml, dl) ==
    IF ylen + ml + dl # Len(s) THEN NoDate
    ELSE Checked(Century(fmt, NumVal(SubSeq(s, 1, ylen))),
                 NumVal(SubSeq(s, ylen + 1, ylen + ml)),
                 NumVal(SubSeq(s, ylen + ml + 1, ylen + ml + dl)))

\* the first month alternative, in order, after which a day matches
RECURSIVE FirstMatch(_, _, _, _, _)
FirstMatch(s, fmt, ylen, mls, k) ==
    IF k > Len(mls) THEN NoDate
    ELSE IF Len(DayLens(s, ylen + 1 + mls[k])) > 0
         THEN Matched(s, fmt, ylen, mls[k], DayLens(s, ylen + 1 + mls[k])[1])
    ELSE FirstMatch(s, fmt, ylen, mls, k + 1)

YearLen(fmt) == IF fmt = FMT_ymd THEN 2 ELSE 4

\* the regular-expression match of _strptime followed by its checks: the
\* first match in alternation order, "unconverted data remains" when it
\* stops short, and the calendar check of the date constructor
strptime(s, fmt) ==
    IF Len(s) >= YearLen(fmt) /\ \A k \in 1..YearLen(fmt) : s[k] \in DigitSet
    THEN FirstMatch(s, fmt, YearLen(fmt), MonthLens(s, YearLen(fmt) + 1), 1)
    ELSE NoDate

RECURSIVE Decimal(_)
Decimal(n) == IF n < 10 THEN <<Digits[n + 1]>> ELSE Append(Decimal(n \div 10), Digits[(n % 10) + 1])
TwoDigits(n) == <<Digits[(n \div 10) + 1], Digits[(n % 10) + 1]>>

\* strftime('%m-%d-%Y')
strftime(dt, fmt) == TwoDigits(dt.m) \o <<"-">> \o TwoDigits(dt.d) \o <<"-">> \o Decimal(dt.y)

\* ------------------------------------------------------------------------
\* Dialect Registry (src/edi.py, src/x12.py)
\* ------------------------------------------------------------------------
Codes(items) == [kind |-> "codes", items |-> items]

DEFAULT_SEPARATORS ==
    [X12 |-> [ELEMENT |-> <<"*">>, SEGMENT |-> <<"~">>, SUBELEMENT |-> <<"<">>],
     EDIFACT |-> [ELEMENT |-> <<"+">>, SEGMENT |-> <<"'">>, SUBELEMENT |-> <<":">>]]

EDI_SEGMENTS ==
    [X12 |-> [ENVELOPE |-> Codes(<< <<"I", "S", "A">> >>),
              INNER_MESSAGE |-> Codes(<< <<"G", "S">> >>),
              RECORD_START |-> Codes(<< <<"B", "F", "R">> >>),
              ADDRESS |-> Codes(<< <<"N", "1">> >>),
              LOOP |-> Codes(<< <<"S", "T">> >>),
              PART_DETAILS |-> Codes(<< <<"L", "I", "N">> >>),
              ACCUM |-> Codes(<< <<"S", "H", "P">>, <<"A", "T", "H">> >>),
              RELEASE |-> Codes(<< <<"F", "S", "T">> >>),
              FILE_END |-> Codes(<< <<"S", "E">> >>)],
     EDIFACT |-> [ENVELOPE |-> Codes(<< <<"U", "N", "B">> >>),
                  INNER_MESSAGE |-> Codes(<< >>),
                  RECORD_START |-> Codes(<< <<"U", "N", "H">> >>),
                  ADDRESS |-> Codes(<< <<"N", "A", "D">> >>),
                  LOOP |-> Codes(<< <<"B", "G", "M">> >>),
                  PART_DETAILS |-> Codes(<< <<"L", "I", "N">> >>),
                  ACCUM |-> Codes(<< <<>> >>),
                  RELEASE |-> Codes(<< <<>> >>),
                  FILE_END |-> Codes(<< <<"U", "N", "T">> >>)]]

VALID_LANGUAGES == {"X12", "EDIFACT"}

DATE_FORMATS ==
    (<<"0", "0", "2", "0">> :> FMT_ymd) @@ (<<"0", "0", "3", "0">> :> FMT_ymd)
    @@ (<<"0", "0", "4", "0">> :> FMT_Ymd) @@ (<<"0", "0", "5", "0">> :> FMT_Ymd)
    @@ (<<"0", "0", "6", "0">> :> FMT_Ymd)

START_SEGMENTS ==
    (<<"8", "6", "1">> :> <<"B", "R", "A">>) @@ (<<"8", "1", "0">> :> <<"B", "I", "G">>)
    @@ (<<"8", "2", "4">> :> <<"B", "G", "N">>) @@ (<<"9", "9", "7">> :> <<"A", "K", "1">>)
    @@ (<<"8", "5", "6">> :> <<"B", "S", "N">>) @@ (<<"8", "2", "2">> :> <<"B", "G", "N">>)
    @@ (<<"8", "6", "2">> :> <<"B", "S", "S">>) @@ (<<"1", "4", "2">> :> <<"B", "G", "N">>)
    @@ (<<"8", "5", "3">> :> <<"B", "G", "N">>) @@ (<<"8", "3", "0">> :> <<"B", "F", "R">>)
    @@ (<<"8", "5", "0">> :> <<"B", "E", "G">>) @@ (<<"8", "5", "5">> :> <<"B", "A", "K">>)
    @@ (<<"8", "6", "0">> :> <<"B", "C", "H">>) @@ (<<"8", "6", "4">> :> <<"B", "M", "G">>)
    @@ (<<"8", "2", "0">> :> <<"T", "R", "N">>) @@ (<<"8", "3", "2">> :> <<"B", "C", "T">>)

GROUP_3 == {<<"B", "F", "R">>, <<"B", "E", "G">>, <<"B", "A", "K">>, <<"B", "C", "H">>}
GROUP_2 == {<<"B", "S", "N">>, <<"B", "S", "S">>, <<"B", "G", "N">>, <<"A", "K", "1">>, <<"T", "R", "N">>}
GROUP_1 == {<<"B", "R", "A">>, <<"B", "I", "G">>}

\* x in GROUP for a tuple of strings: equality with one of its members
InGroup(x, group) == x.kind = "str" /\ x.text \in group

\* ------------------------------------------------------------------------
\* Segments fed to the handlers
\* ------------------------------------------------------------------------
X12Segment(elements) == join(elements, <<"*">>)

\* ISA up to the control number (element 13)
ISA_FULL == X12Segment(<<<<"I", "S", "A">>, <<"0">>, <<"0">>, <<"0">>, <<"0">>, <<"Q">>, <<"S">>, <<"Q">>, <<"R">>, <<"0">>, <<"0">>, <<"U">>, <<"0">>, <<"7">>>>)

\* GS of version 004010 with a date of eight digits
GS_0040 == X12Segment(<<<<"G", "S">>, <<"P", "O">>, <<"S">>, <<"R">>, <<"2", "0", "2", "5", "0", "1", "1", "5">>, <<"1">>, <<"1">>, <<"X">>, <<"0", "0", "4", "0", "1", "0">>>>)

\* GS too short to hold the version (element 8)
GS_SHORT == X12Segment(<<<<"G", "S">>, <<"P", "O">>>>)

\* ST of a purchase order
ST_850 == X12Segment(<<<<"S", "T">>, <<"8", "5", "0">>, <<"1">>>>)

\* ST of a document type without a start-segment mapping
ST_999 == X12Segment(<<<<"S", "T">>, <<"9", "9", "9">>, <<"1">>>>)

\* start segment with both horizon dates
BFR_FULL == X12Segment(<<<<"B", "F", "R">>, <<"A">>, <<"B">>, <<"C">>, <<"D">>, <<"E">>, <<"2", "0", "2", "5", "0", "1", "0", "1">>, <<"2", "0", "2", "5", "1", "2", "3", "1">>>>)

\* start segment without the horizon dates
BFR_SHORT == X12Segment(<<<<"B", "F", "R">>, <<"A">>, <<"B">>, <<"C">>>>)

\* N1 ship-to with a plant code
N1_ST == X12Segment(<<<<"N", "1">>, <<"S", "T">>, <<"N">>, <<"9", "2">>, <<"P", "1">>>>)

\* N1 supplier
N1_SU == X12Segment(<<<<"N", "1">>, <<"S", "U">>, <<"N">>, <<"9", "2">>, <<"S", "1">>>>)

\* SHP 01 with a quantity and a date
SHP_01 == X12Segment(<<<<"S", "H", "P">>, <<"0", "1">>, <<"1", "0", "0">>, <<"0", "5", "0">>, <<"2", "0", "2", "5", "0", "1", "1", "5">>>>)

\* SHP 01 with a malformed date
SHP_01_BAD_DATE == X12Segment(<<<<"S", "H", "P">>, <<"0", "1">>, <<"1", "0", "0">>, <<"0", "5", "0">>, <<"2", "0", "2", "5", "0", "1", "1", "X">>>>)

\* SHP 01 with a quantity of six digits
SHP_01_SIX == X12Segment(<<<<"S", "H", "P">>, <<"0", "1">>, <<"1", "0", "0", "0", "1", "1">>, <<"0", "5", "0">>, <<"2", "0", "2", "5", "0", "1", "1", "5">>>>)

\* LIN of part P1
LIN_P1 == X12Segment(<<<<"L", "I", "N">>, <<>>, <<"B", "P">>, <<"P", "1">>>>)

\* SE
SE_1 == X12Segment(<<<<"S", "E">>, <<"9">>, <<"1">>>>)

\* elements: a date, a malformed date, a date and an impossible date as subelements
DTM_1 == X12Segment(<<<<"D">>, <<"2", "0", "2", "5", "0", "1", "1", "5">>,
                      <<"2", "0", "2", "5", "0", "1", "1", "X">>,
                      <<"2", "0", "2", "5", "0", "1", "1", "5", "<", "2", "0", "2", "5", "0", "2", "3", "0">>>>)

\* one element: a date of six digits
DTM_2 == X12Segment(<<<<"D">>, <<"2", "5", "0", "1", "1", "5">>>>)

\* segments fed to the handlers that assemble Documents and Parts (Spec)
InnerSegments == {GS_0040}
StartSegments == {BFR_FULL, BFR_SHORT}
PartSegments == {LIN_P1}
AddressSegments == {N1_ST, N1_SU}
AccumSegments == {SHP_01, SHP_01_BAD_DATE, SHP_01_SIX}
EndSegments == {SE_1}

\* segments fed to the handlers of the parser-scoped fields (SpecParser)
ParserEnvelopeSegments == {ISA_FULL}
ParserInnerSegments == {GS_0040, GS_SHORT}
ParserLoopSegments == {ST_850, ST_999}
ParserStartSegments == {BFR_SHORT}

\* one LoopMarker segment per document type of START_SEGMENTS, and the start
\* segment that follows it (SpecLoop)
ST_of(document_type) == X12Segment(<<<<"S", "T">>, document_type, <<"1">>>>)
LoopSegments == {ST_of(document_type) : document_type \in DOMAIN START_SEGMENTS}
LoopStartSegments == {BFR_FULL}

\* segments of an inner message with dates of six digits (SpecDates)
\* GS of version 002003 with a date of six digits
GS_0020 == X12Segment(<<<<"G", "S">>, <<"P", "O">>, <<"S">>, <<"R">>, <<"2", "5", "0", "1", "1", "5">>, <<"1">>, <<"1">>, <<"X">>, <<"0", "0", "2", "0", "0", "3">>>>)

\* GS of a version the table does not know
GS_9999 == X12Segment(<<<<"G", "S">>, <<"P", "O">>, <<"S">>, <<"R">>, <<"2", "0", "2", "5", "0", "1", "1", "5">>, <<"1">>, <<"1">>, <<"X">>, <<"9", "9", "9", "9", "0", "1">>>>)

\* start segment with horizon dates of six digits
BFR_YMD == X12Segment(<<<<"B", "F", "R">>, <<"A">>, <<"B">>, <<"C">>, <<"D">>, <<"E">>, <<"2", "5", "0", "1", "0", "1">>, <<"2", "5", "1", "2", "3", "1">>>>)

\* SHP 01 with a date of six digits
SHP_01_YMD == X12Segment(<<<<"S", "H", "P">>, <<"0", "1">>, <<"1", "0", "0">>, <<"0", "5", "0">>, <<"2", "5", "0", "1", "1", "5">>>>)

\* SHP 02: a total with its start and end dates, of six digits
SHP_02_YMD == X12Segment(<<<<"S", "H", "P">>, <<"0", "2">>, <<"5", "0", "0">>, <<"0", "5", "0">>, <<"2", "5", "0", "1", "0", "1">>, <<"0", "5", "1">>, <<"2", "5", "1", "2", "3", "1">>>>)

\* SHP without a qualifier
SHP_SHORT == X12Segment(<<<<"S", "H", "P">>>>)

DatesInnerSegments == {GS_0020, GS_9999}
DatesStartSegments == {BFR_YMD}
DatesAccumSegments == {SHP_01_YMD, SHP_02_YMD, SHP_SHORT}

\* segments fed to the dispatcher (SpecDispatch)
\* BEG of a purchase order with its number at element 3
BEG_FULL == X12Segment(<<<<"B", "E", "G">>, <<"0", "0">>, <<"S", "A">>, <<"P", "O", "1">>>>)

\* REF, a segment of no dispatch role
REF_X == X12Segment(<<<<"R", "E", "F">>, <<"X">>>>)

\* SHP of a qualifier handle_accum does not know
SHP_OTHER == X12Segment(<<<<"S", "H", "P">>, <<"9", "9">>>>)

DispatchSegments ==
    {ISA_FULL, GS_0040, ST_850, BFR_FULL, BEG_FULL, N1_ST, LIN_P1, SHP_OTHER, SE_1, REF_X}

\* segments classified under both languages (SpecClassify): every code of a
\* dispatch role of either language and some codes of no role, each
\* followed by one element
ClassifyCodes ==
    {<<"I", "S", "A">>, <<"G", "S">>, <<"B", "F", "R">>, <<"N", "1">>, <<"S", "T">>,
     <<"L", "I", "N">>, <<"S", "H", "P">>, <<"A", "T", "H">>, <<"F", "S", "T">>,
     <<"S", "E">>, <<"U", "N", "B">>, <<"U", "N", "H">>, <<"N", "A", "D">>,
     <<"B", "G", "M">>, <<"U", "N", "T">>, <<"R", "E", "F">>, <<"D", "T", "M">>,
     <<"Q", "T", "Y">>, <<"S", "C", "C">>, <<"M", "S", "G">>}
ClassifySegments ==
    {code \o <<sep, "1">> : code \in ClassifyCodes, sep \in {"*", "+"}}

\* arguments of the direct calls of universal_element_extract (SpecExtract)
ExtractSegments == {DTM_1, DTM_2}
Positions == {PyInt(1), PyInt(2), PyInt(4), Tuple(3, 0), Tuple(3, 1), Tuple(3, 2)}
Requests ==
    Positions
    \cup {List(<<a, b>>) : a \in Positions, b \in {PyInt(1), PyInt(2)}}
    \cup {Dict(<<Entry("a", a), Entry("b", b)>>) :
             a \in {PyInt(1), PyInt(4), Rec(PyInt(1), "True"), Rec(PyInt(2), "True"),
                    Rec(Tuple(3, 1), "True"), Rec(PyInt(1), "None")},
             b \in {PyInt(1), PyInt(2), Rec(PyInt(2), "True")}}
Calls ==
    [segment : ExtractSegments, position : Requests, date : BOOLEAN,
     date_format_in : {FMT_Ymd, FMT_ymd}]

\* direct calls interleaved with the handlers (SpecParser)
ParserCalls ==
    [segment : {DTM_1}, position : {Tuple(3, 2), List(<<PyInt(2), Tuple(3, 1)>>), PyInt(2)},
     date : {TRUE}, date_format_in : {FMT_Ymd}]

Segments ==
    UNION {ExtractSegments, InnerSegments, StartSegments, PartSegments, AddressSegments, AccumSegments,
           EndSegments, ParserEnvelopeSegments, ParserInnerSegments, ParserLoopSegments,
           ParserStartSegments}

\* ------------------------------------------------------------------------
\* State
\* ------------------------------------------------------------------------
VARIABLES
    self,       \* the parser object: its attributes, Unset when never assigned
    state,      \* the traversal state dict handed to every handler
    docs,       \* heap of EdiDocument objects, addressed by index
    parts,      \* heap of EdiPart objects, addressed by index
    last,       \* the last call made on the parser: arguments, exception raised
    returned,   \* every failure object handed back at a leaf, in order
    call,       \* arguments of the last direct universal_element_extract call
    result      \* value returned by that call

vars == <<self, state, docs, parts, last, returned, call, result>>

Unset == [kind |-> "unset"]
NoError == "none"

\* ------------------------------------------------------------------------
\* Element Extractor (src/edi.py)
\* ------------------------------------------------------------------------
ElementExtractionFailure(failure_point, segment, position, element, subposition, fin, fout) ==
    [kind |-> "failure",
     failure_point |-> failure_point,
     segment |-> segment,
     position |-> position,
     element |-> element,
     subposition |-> subposition,
     date_format_in |-> fin,
     date_format_out |-> fout]

\* a local name of the code: In sees the value once computed
Let(value, In(_)) == In(value)

split(s, sep) == str_split(s, sep)

\* handle_extraction_error returning the failure without logging it
handle_extraction_error_unlogged(errors, error) == [value |-> error, errors |-> errors]

\* appends to the log (created on first use) and returns the same object
handle_extraction_error(errors, error) == [value |-> error, errors |-> Append(errors, error)]

\* lines 228-246: the date block and the return of the element
convert_date(errors, segment, subpos, force_date, position, single_date, fin, fout, element, dt) ==
    IF dt.ok THEN [value |-> Str(strftime(dt, fout)), errors |-> errors]
    ELSE IF single_date \/ force_date = "True"
         THEN handle_extraction_error(errors,
                  ElementExtractionFailure("Date conversion", segment, position,
                                           Str(element), subpos, fin, fout))
    ELSE [value |-> Str(element), errors |-> errors]

\* the inner function of universal_element_extract; position, date,
\* single_date and the formats are its closure variables
extract_one(errors, segment, p, force_date, position, date, single_date, fin, fout) ==
    LET subpos == IF p.kind = "tuple" THEN PyInt(p.subpos) ELSE None
    IN Let(split(segment, self.element_separator.text), LAMBDA elems :
       IF p.pos >= Len(elems)
       THEN handle_extraction_error(errors,
                ElementExtractionFailure("Element Index", segment, PyInt(p.pos),
                                         None, None, FMT_Ymd, FMT_OUT))
       ELSE Let(split(elems[p.pos + 1], self.subelement_separator.text), LAMBDA subs :
            IF subpos # None /\ p.subpos >= Len(subs)
            THEN handle_extraction_error(errors,
                     ElementExtractionFailure("Subelement Index", segment, position,
                                              Str(elems[p.pos + 1]), subpos, FMT_Ymd, FMT_OUT))
            ELSE Let(IF subpos # None THEN subs[p.subpos + 1] ELSE elems[p.pos + 1],
                     LAMBDA element :
                 IF ~date THEN [value |-> Str(element), errors |-> errors]
                 ELSE convert_date(errors, segment, subpos, force_date, position,
                                   single_date, fin, fout, element,
                                   strptime(element, fin)))))

\* the list comprehension and the dict loop: one extract_one per entry, in order
RECURSIVE extract_each(_, _, _, _, _, _, _)
extract_rest(r, segment, items, position, date, fin, fout) ==
    Let(extract_each(r.errors, segment, items, position, date, fin, fout), LAMBDA rest :
        [values |-> <<r.value>> \o rest.values, errors |-> rest.errors])
extract_each(errors, segment, items, position, date, fin, fout) ==
    IF Len(items) = 0 THEN [values |-> <<>>, errors |-> errors]
    ELSE LET spec == IF position.kind = "dict" THEN items[1].spec ELSE items[1]
             pos == IF spec.kind = "rec" THEN spec.pos ELSE spec
             force_date == IF spec.kind = "rec" THEN spec.date ELSE "None"
         IN extract_rest(extract_one(errors, segment, pos, force_date, position, date,
                                     FALSE, fin, fout),
                         segment, Tail(items), position, date, fin, fout)

\* lines 254-269: the list or dict built from the entries' results
collect(position, r) ==
    IF position.kind = "list"
    THEN [value |-> List(r.values), errors |-> r.errors]
    ELSE [value |-> Dict([k \in 1..Len(r.values) |->
                             [key |-> position.items[k].key, value |-> r.values[k]]]),
          errors |-> r.errors]

universal_element_extract(errors, segment, position, date, fin, fout) ==
    IF position.kind \in {"int", "tuple"}
    THEN extract_one(errors, segment, position, "None", position, date,
                     position.kind = "int", fin, fout)
    ELSE collect(position,
                 extract_each(errors, segment, position.items, position, date, fin, fout))

\* the failure objects found at the leaves of a returned value, in order
Leaves(v) ==
    IF v.kind = "list" THEN v.items
    ELSE IF v.kind = "dict" THEN [k \in 1..Len(v.items) |-> v.items[k].value]
    ELSE <<v>>
FailureLeaves(v) == SelectSeq(Leaves(v), IsFailure)

\* ------------------------------------------------------------------------
\* Construction (EdiBase.__init__ through EdiX12.__init__)
\* ------------------------------------------------------------------------
\* the separator attribute after lines 124-129: assigned only when the
\* argument is missing or empty
AfterDefault(language, arg, role) ==
    IF ~Truthy(arg) THEN Str(DEFAULT_SEPARATORS[language][role]) ELSE Unset

\* lines 130-132: decoding reads the attribute; a missing one raises
Decoded(attr) == IF attr = Unset THEN Unset ELSE Str(unicode_escape(attr.text))

\* the segment attributes default_segments assigns for a language
language_segments(language) ==
    [envelope_segment |-> EDI_SEGMENTS[language].ENVELOPE,
     inner_message_segment |-> EDI_SEGMENTS[language].INNER_MESSAGE,
     record_start_segment |-> EDI_SEGMENTS[language].RECORD_START,
     address_segment |-> EDI_SEGMENTS[language].ADDRESS,
     loop_segment |-> EDI_SEGMENTS[language].LOOP,
     part_details_segment |-> EDI_SEGMENTS[language].PART_DETAILS,
     release_segment |-> EDI_SEGMENTS[language].RELEASE,
     accum_segment |-> EDI_SEGMENTS[language].ACCUM,
     file_end_segment |-> EDI_SEGMENTS[language].FILE_END]

\* default_segments of an EdiX12 parser
default_segments == language_segments("X12")

\* text.startswith(codes) for a tuple of codes accepting any code
startswith_any_code(text, codes) == Len(codes.items) > 0

\* text.startswith(codes) for a tuple of codes: the empty tuple matches
\* nothing, the empty code matches every text
startswith(text, codes) ==
    \E i \in 1..Len(codes.items) :
        /\ Len(codes.items[i]) <= Len(text)
        /\ SubSeq(text, 1, Len(codes.items[i])) = codes.items[i]

\* the handlers a dispatch map holds under the keys a segment starts with
handlers_for(map, segment) ==
    {map[k] : k \in {key \in DOMAIN map : startswith(segment, key)}}

Unrecognized == "Unrecognized"

\* classify(segment, dialect): the roles, named by their handlers, a segment
\* may be classified into; Unrecognized alone when no key matches
classify(map, segment) ==
    IF handlers_for(map, segment) = {} THEN {Unrecognized} ELSE handlers_for(map, segment)

\* the dict literal of lines 136-146: key -> handler, a later equal key
\* replacing the handler of an earlier one
DISPATCH_MAP(segs) ==
    LET pairs == << <<segs.envelope_segment, "handle_envelope">>,
                    <<segs.inner_message_segment, "handle_inner">>,
                    <<segs.record_start_segment, "handle_start">>,
                    <<segs.address_segment, "handle_address">>,
                    <<segs.part_details_segment, "handle_part">>,
                    <<segs.release_segment, "handle_release">>,
                    <<segs.accum_segment, "handle_accum">>,
                    <<segs.file_end_segment, "handle_end">>,
                    <<segs.loop_segment, "handle_loop">> >>
        keys == {pairs[i][1] : i \in 1..Len(pairs)}
    IN [k \in keys |->
           pairs[CHOOSE i \in 1..Len(pairs) :
                    /\ pairs[i][1] = k
                    /\ \A j \in 1..Len(pairs) : pairs[j][1] = k => j <= i][2]]

\* the object EdiBase.__init__ leaves behind for a valid language; the
\* dispatch map is the last attribute it assigns
EdiBase_init(language, element_separator, subelement_separator, segment_separator) ==
    LET e == AfterDefault(language, element_separator, "ELEMENT")
        s == AfterDefault(language, subelement_separator, "SUBELEMENT")
        g == AfterDefault(language, segment_separator, "SEGMENT")
        ok == e # Unset /\ s # Unset /\ g # Unset
        segs == language_segments(language)
    IN [language |-> language,
        constructed |-> ok,
        DISPATCH_MAP |-> IF ok THEN DISPATCH_MAP(segs) ELSE Unset,
        element_separator |-> Decoded(e),
        subelement_separator |-> IF e = Unset THEN s ELSE Decoded(s),
        segment_separator |-> IF e = Unset \/ s = Unset THEN g ELSE Decoded(g),
        record_start_segment |-> IF ok THEN segs.record_start_segment ELSE Unset,
        extraction_errors |-> <<>>,
        sender_id |-> Unset, sender_qualifier |-> Unset,
        receiver_id |-> Unset, receiver_qualifier |-> Unset,
        transaction_no |-> Unset,
        edi_version |-> Unset, date_format |-> Unset, document_type |-> Unset]

\* EdiX12.__init__: the base constructor with language 'X12'
EdiX12_init(element_separator, subelement_separator, segment_separator) ==
    EdiBase_init("X12", element_separator, subelement_separator, segment_separator)

\* the traversal state a caller starts a parse with
FreshState ==
    [edi_class |-> None, edi_class_list |-> <<>>, part_record |-> None,
     address |-> None, document_issue_date |-> None]

\* separator arguments a caller may pass (None: not passed)
ElementOverrides == {None, Str(<<>>), Str(<<"|">>), Str(<<"\\", "t">>)}
SubelementOverrides == {None, Str(<<">">>)}
SegmentOverrides == {None, Str(<<"\\", "n">>)}

NoCall == [segment |-> <<>>, position |-> None, date |-> FALSE, date_format_in |-> FMT_Ymd]

Init ==
    \E e \in ElementOverrides, s \in SubelementOverrides, g \in SegmentOverrides :
        /\ self = EdiX12_init(e, s, g)
        /\ state = FreshState
        /\ docs = <<>>
        /\ parts = <<>>
        /\ last = [op |-> "__init__",
                   args |-> <<e, s, g>>,
                   before |-> FreshState,
                   err |-> IF EdiX12_init(e, s, g).constructed THEN NoError ELSE "AttributeError"]
        /\ returned = <<>>
        /\ call = NoCall
        /\ result = None

\* ------------------------------------------------------------------------
\* Handlers of EdiX12 (src/x12.py).  Each handler is computed as the effect
\* of one call: the parser, the traversal state and the heaps it leaves
\* behind and the exception it raised.  A handler that raises keeps the
\* assignments made before the raise.
\* ------------------------------------------------------------------------
\* the record of a call: its arguments, the traversal state it was handed
\* and the exception it raised
Called(op, args, err) == [op |-> op, args |-> args, before |-> state, err |-> err]

DocRef(i) == [kind |-> "EdiDocument", id |-> i]
PartRef(i) == [kind |-> "EdiPart", id |-> i]

\* one call of universal_element_extract by a handler: t carries the log
\* and the failures handed back so far
Handed(t, r) ==
    [value |-> r.value, errors |-> r.errors,
     returned |-> t.returned \o FailureLeaves(r.value)]
Extract(t, segment, position, date, fin) ==
    Handed(t, universal_element_extract(t.errors, segment, position, date, fin, FMT_OUT))

\* universal_element_extract(segment, i) with the default options
Get(t, segment, i) == Extract(t, segment, PyInt(i), FALSE, FMT_Ymd)

Begin == [errors |-> self.extraction_errors, returned |-> returned]

Effect(self2, state2, docs2, parts2, t, err) ==
    [self |-> [self2 EXCEPT !.extraction_errors = t.errors],
     state |-> state2, docs |-> docs2, parts |-> parts2,
     returned |-> t.returned, err |-> err]

handle_envelope_effect(segment) ==
    Let(Get(Begin, segment, 6), LAMBDA r1 :
    Let(Get(r1, segment, 5), LAMBDA r2 :
    Let(Get(r2, segment, 8), LAMBDA r3 :
    Let(Get(r3, segment, 7), LAMBDA r4 :
    Let(Get(r4, segment, 13), LAMBDA r5 :
        Effect([self EXCEPT !.sender_id = r1.value,
                            !.sender_qualifier = r2.value,
                            !.receiver_id = r3.value,
                            !.receiver_qualifier = r4.value,
                            !.transaction_no = r5.value],
               state, docs, parts, r5, NoError))))))

\* DATE_FORMATS.get falling back to the two-digit-year format
DATE_FORMATS_get_short_year(version) ==
    IF version \in DOMAIN DATE_FORMATS THEN DATE_FORMATS[version] ELSE FMT_ymd

\* DATE_FORMATS.get(version, '%Y%m%d')
DATE_FORMATS_get(version) ==
    IF version \in DOMAIN DATE_FORMATS THEN DATE_FORMATS[version] ELSE FMT_Ymd

handle_inner_effect(segment) ==
    Let(Get(Begin, segment, 8), LAMBDA r1 :
        IF ~IsStr(r1.value)
        THEN \* [:4] on a failure object
             Effect(self, state, docs, parts, r1, "TypeError")
        ELSE LET edi_version == Prefix(r1.value.text, 4)
                 date_format == DATE_FORMATS_get(edi_version)
             IN Let(Extract(r1, segment, PyInt(4), TRUE, date_format), LAMBDA r2 :
                    Effect([self EXCEPT !.edi_version = Str(edi_version),
                                        !.date_format = Fmt(date_format)],
                           [state EXCEPT !.document_issue_date = r2.value],
                           docs, parts, r2, NoError)))

\* handle_loop falling back to the dialect's start segment on a lookup miss
handle_loop_effect_defaulting(segment) ==
    Let(Get(Begin, segment, 1), LAMBDA r1 :
        Effect([self EXCEPT
                   !.document_type = r1.value,
                   !.record_start_segment =
                       IF IsStr(r1.value) /\ r1.value.text \in DOMAIN START_SEGMENTS
                       THEN Str(START_SEGMENTS[r1.value.text])
                       ELSE default_segments.record_start_segment],
               state, docs, parts, r1, NoError))

handle_loop_effect(segment) ==
    Let(Get(Begin, segment, 1), LAMBDA r1 :
        LET self1 == [self EXCEPT !.document_type = r1.value]
        IN IF IsStr(r1.value) /\ r1.value.text \in DOMAIN START_SEGMENTS
           THEN Effect([self1 EXCEPT
                           !.record_start_segment = Str(START_SEGMENTS[r1.value.text])],
                       state, docs, parts, r1, NoError)
           ELSE Effect(self1, state, docs, parts, r1, "KeyError"))

\* record_no_index taking the record number of the first family from element 2
record_no_index_shifted(record_start_segment) ==
    IF InGroup(record_start_segment, GROUP_3) THEN 2
    ELSE IF InGroup(record_start_segment, GROUP_2) THEN 2
    ELSE IF InGroup(record_start_segment, GROUP_1) THEN 1
    ELSE 0

record_no_index(record_start_segment) ==
    IF InGroup(record_start_segment, GROUP_3) THEN 3
    ELSE IF InGroup(record_start_segment, GROUP_2) THEN 2
    ELSE IF InGroup(record_start_segment, GROUP_1) THEN 1
    ELSE 0

EdiDocument(ref_no) ==
    [ref_no |-> ref_no, part_list |-> <<>>, document_issue_date |-> Unset,
     horizon_start_date |-> Unset, horizon_end_date |-> Unset]

\* close_open_document forgetting to store the Document it closes
close_open_document_dropped(st) == [st EXCEPT !.edi_class = None]

\* "If an existing document is open, close it and store it"
close_open_document(st) ==
    IF Truthy(st.edi_class)
    THEN [st EXCEPT !.edi_class_list = Append(@, st.edi_class), !.edi_class = None]
    ELSE st

handle_start_effect(segment) ==
    Let(Get(Begin, segment, record_no_index(self.record_start_segment)), LAMBDA r1 :
    Let(close_open_document(state), LAMBDA state1 :
        IF self.date_format = Unset
        THEN \* line 100 reads self.date_format before any handle_inner set it
             Effect(self, state1, docs, parts, r1, "AttributeError")
        ELSE Let(Extract(r1, segment, List(<<PyInt(6), PyInt(7)>>),
                         TRUE, self.date_format.name), LAMBDA r2 :
                 Effect(self, [state1 EXCEPT !.edi_class = DocRef(Len(docs) + 1)],
                        Append(docs, [EdiDocument(r1.value) EXCEPT
                                         !.document_issue_date = state.document_issue_date,
                                         !.horizon_start_date = r2.value.items[1],
                                         !.horizon_end_date = r2.value.items[2]]),
                        parts, r2, NoError))))

\* lines 124-125: the plant of the Part in hand
set_plant(address) ==
    IF Truthy(address) /\ Truthy(state.part_record)
    THEN [parts EXCEPT ![state.part_record.id].plant = address]
    ELSE parts

handle_address_effect(segment) ==
    Let(Get(Begin, segment, 1), LAMBDA r1 :
        IF r1.value = Str(<<"S", "T">>)
        THEN Let(Get(r1, segment, 4), LAMBDA r2 :
                 Effect(self, [state EXCEPT !.address = r2.value], docs,
                        set_plant(r2.value), r2, NoError))
        ELSE Effect(self, state, docs, set_plant(state.address), r1, NoError))

\* lines 134-143: a total accumulation with its start and end dates
total_accum(r1, segment, position) ==
    Let(Extract(r1, segment, position, TRUE, FMT_Ymd), LAMBDA r2 :
        Effect(self, state, docs,
               [parts EXCEPT ![state.part_record.id].total_accum = r2.value.items[1],
                             ![state.part_record.id].total_accum_start_date = r2.value.items[2],
                             ![state.part_record.id].total_accum_end_date = r2.value.items[3]],
               r2, NoError))

handle_accum_effect(segment) ==
    Let(Get(Begin, segment, 1), LAMBDA r1 :
        IF ~Truthy(state.part_record) THEN Effect(self, state, docs, parts, r1, NoError)
        ELSE IF r1.value = Str(<<"0", "1">>)
        THEN Let(Extract(r1, segment, List(<<PyInt(2), PyInt(4)>>), TRUE, FMT_Ymd),
                 LAMBDA r2 :
                 Effect(self, state, docs,
                        [parts EXCEPT
                            ![state.part_record.id].last_received_ship_quantity = r2.value.items[1],
                            ![state.part_record.id].last_received_ship_date = r2.value.items[2]],
                        r2, NoError))
        ELSE IF r1.value = Str(<<"0", "2">>)
        THEN total_accum(r1, segment, List(<<PyInt(2), PyInt(4), PyInt(6)>>))
        ELSE IF r1.value = Str(<<"P", "Q">>)
        THEN total_accum(r1, segment, List(<<PyInt(3), PyInt(5), PyInt(2)>>))
        ELSE Effect(self, state, docs, parts, r1, NoError))

\* ------------------------------------------------------------------------
\* Handlers the dialect leaves abstract (PartDetails, FileEnd)
\* ------------------------------------------------------------------------
EdiPart(part_no) ==
    [part_no |-> part_no, address |-> None, plant |-> Unset,
     total_accum |-> None, total_accum_start_date |-> None, total_accum_end_date |-> None,
     last_received_ship_quantity |-> Unset, last_received_ship_date |-> Unset]

\* opens a Part and appends it to the open Document
handle_part_effect(segment) ==
    Let(Get(Begin, segment, 3), LAMBDA r1 :
        Effect(self, [state EXCEPT !.part_record = PartRef(Len(parts) + 1)],
               IF Truthy(state.edi_class)
               THEN [docs EXCEPT ![state.edi_class.id].part_list =
                                     Append(@, PartRef(Len(parts) + 1))]
               ELSE docs,
               Append(parts, EdiPart(r1.value)), r1, NoError))

\* handle_end closing the open Document without storing it
handle_end_effect_discarding(segment) ==
    Effect(self, [state EXCEPT !.edi_class = None], docs, parts, Begin, NoError)

\* seals the open Document
handle_end_effect(segment) ==
    Effect(self,
           IF Truthy(state.edi_class)
           THEN [state EXCEPT !.edi_class_list = Append(@, state.edi_class),
                              !.edi_class = None]
           ELSE state,
           docs, parts, Begin, NoError)

\* ------------------------------------------------------------------------
\* Actions: one call of a handler on a constructed parser
\* ------------------------------------------------------------------------
Constructed == self.constructed

Call(op, segment, effect) ==
    /\ Constructed
    /\ \E e \in {effect} :
        /\ Len(e.self.extraction_errors) <= MaxErrors
        /\ Len(e.docs) <= MaxDocs
        /\ Len(e.parts) <= MaxParts
        /\ self' = e.self
        /\ state' = e.state
        /\ docs' = e.docs
        /\ parts' = e.parts
        /\ returned' = e.returned
        /\ last' = Called(op, <<segment>>, e.err)
    /\ UNCHANGED <<call, result>>

\* a direct call of universal_element_extract by the parser's user
universal_element_extract_call(c) ==
    /\ Constructed
    /\ \E r \in {universal_element_extract(self.extraction_errors, c.segment, c.position,
                                           c.date, c.date_format_in, FMT_OUT)} :
        /\ Len(r.errors) <= MaxErrors
        /\ self' = [self EXCEPT !.extraction_errors = r.errors]
        /\ returned' = returned \o FailureLeaves(r.value)
        /\ result' = r.value
    /\ call' = c
    /\ last' = Called("universal_element_extract", <<c.segment>>, NoError)
    /\ UNCHANGED <<state, docs, parts>>

handle_envelope(segment) == Call("handle_envelope", segment, handle_envelope_effect(segment))
handle_inner(segment) == Call("handle_inner", segment, handle_inner_effect(segment))
handle_loop(segment) == Call("handle_loop", segment, handle_loop_effect(segment))
handle_start(segment) == Call("handle_start", segment, handle_start_effect(segment))
handle_address(segment) == Call("handle_address", segment, handle_address_effect(segment))
handle_accum(segment) == Call("handle_accum", segment, handle_accum_effect(segment))
handle_part(segment) == Call("handle_part", segment, handle_part_effect(segment))
handle_end(segment) == Call("handle_end", segment, handle_end_effect(segment))

\* a segment of no role is skipped
skip(segment) ==
    /\ Constructed
    /\ last' = Called(Unrecognized, <<segment>>, NoError)
    /\ UNCHANGED <<self, state, docs, parts, returned, call, result>>

\* one segment of the traversal: classified by the parser's dispatch map and
\* handed to the handler of its role (Release segments are not fed)
feed(segment) ==
    /\ Constructed
    /\ \/ Unrecognized \in classify(self.DISPATCH_MAP, segment) /\ skip(segment)
       \/ "handle_envelope" \in classify(self.DISPATCH_MAP, segment) /\ handle_envelope(segment)
       \/ "handle_inner" \in classify(self.DISPATCH_MAP, segment) /\ handle_inner(segment)
       \/ "handle_loop" \in classify(self.DISPATCH_MAP, segment) /\ handle_loop(segment)
       \/ "handle_start" \in classify(self.DISPATCH_MAP, segment) /\ handle_start(segment)
       \/ "handle_address" \in classify(self.DISPATCH_MAP, segment) /\ handle_address(segment)
       \/ "handle_part" \in classify(self.DISPATCH_MAP, segment) /\ handle_part(segment)
       \/ "handle_accum" \in classify(self.DISPATCH_MAP, segment) /\ handle_accum(segment)
       \/ "handle_end" \in classify(self.DISPATCH_MAP, segment) /\ handle_end(segment)

\* classify alone, on a parser of either language
classify_call(c) ==
    /\ Constructed
    /\ \E role \in classify(self.DISPATCH_MAP, c.segment) :
          result' = [kind |-> "role", handler |-> role]
    /\ last' = Called("classify", <<c.segment>>, NoError)
    /\ UNCHANGED <<self, state, docs, parts, returned, call>>

\* document assembly: the handlers that build and fill Documents and Parts
Next ==
    \/ \E segment \in InnerSegments : handle_inner(segment)
    \/ \E segment \in StartSegments : handle_start(segment)
    \/ \E segment \in PartSegments : handle_part(segment)
    \/ \E segment \in AddressSegments : handle_address(segment)
    \/ \E segment \in AccumSegments : handle_accum(segment)
    \/ \E segment \in EndSegments : handle_end(segment)

Spec == Init /\ [][Next]_vars

\* the handlers of the parser-scoped fields, on well-formed and short segments
NextParser ==
    \/ \E segment \in ParserEnvelopeSegments : handle_envelope(segment)
    \/ \E segment \in ParserInnerSegments : handle_inner(segment)
    \/ \E segment \in ParserLoopSegments : handle_loop(segment)
    \/ \E segment \in ParserStartSegments : handle_start(segment)
    \/ \E segment \in PartSegments : handle_part(segment)
    \/ \E segment \in EndSegments : handle_end(segment)
    \/ \E c \in ParserCalls : universal_element_extract_call(c)

SpecParser == Init /\ [][NextParser]_vars

\* the Element Extractor alone: one call on a fresh parser, for every
\* segment, request shape and date option
InitExtract ==
    /\ self = EdiX12_init(None, None, None)
    /\ state = FreshState
    /\ docs = <<>>
    /\ parts = <<>>
    /\ last = [op |-> "__init__", args |-> <<None, None, None>>,
               before |-> FreshState, err |-> NoError]
    /\ returned = <<>>
    /\ call \in Calls
    /\ result = None

NextExtract == result = None /\ universal_element_extract_call(call)

SpecExtract == InitExtract /\ [][NextExtract]_vars

\* every document type of the table, each followed by a DocumentStart
NextLoop ==
    \/ \E segment \in InnerSegments : handle_inner(segment)
    \/ \E segment \in LoopSegments : handle_loop(segment)
    \/ \E segment \in LoopStartSegments : handle_start(segment)

SpecLoop == Init /\ [][NextLoop]_vars

\* inner messages of two versions, with the dated segments that follow them
NextDates ==
    \/ \E segment \in DatesInnerSegments : handle_inner(segment)
    \/ \E segment \in DatesStartSegments : handle_start(segment)
    \/ \E segment \in PartSegments : handle_part(segment)
    \/ \E segment \in DatesAccumSegments : handle_accum(segment)

SpecDates == Init /\ [][NextDates]_vars

\* the traversal: segments of every role and of none, fed in any order
NextDispatch == \E segment \in DispatchSegments : feed(segment)

SpecDispatch == Init /\ [][NextDispatch]_vars

\* the classifier alone: one segment classified by a fresh parser of either
\* language
InitClassify ==
    \E language \in VALID_LANGUAGES, segment \in ClassifySegments :
        /\ self = EdiBase_init(language, None, None, None)
        /\ state = FreshState
        /\ docs = <<>>
        /\ parts = <<>>
        /\ last = [op |-> "__init__", args |-> <<None, None, None>>,
                   before |-> FreshState, err |-> NoError]
        /\ returned = <<>>
        /\ call = [NoCall EXCEPT !.segment = segment]
        /\ result = None

NextClassify == result = None /\ classify_call(call)

SpecClassify == InitClassify /\ [][NextClassify]_vars

\* ------------------------------------------------------------------------
\* Properties
\* ------------------------------------------------------------------------
Range(seq) == {seq[i] : i \in 1..Len(seq)}
Count(seq, x) == Cardinality({i \in 1..Len(seq) : seq[i] = x})
IsPrefix(a, b) == Len(a) <= Len(b) /\ SubSeq(b, 1, Len(a)) = a

\* elements of a segment and the text a position designates, by the
\* dialect's default separators
ElementsOf(segment) == str_split(segment, DEFAULT_SEPARATORS.X12.ELEMENT)
HasElement(segment, i) == i < Len(ElementsOf(segment))
ElementAt(segment, i) == ElementsOf(segment)[i + 1]

\* every Document ever created is either the open one or sealed exactly once
OneOpenDocument ==
    /\ Truthy(state.edi_class) => state.edi_class \notin Range(state.edi_class_list)
    /\ \A d \in 1..Len(docs) :
          Count(state.edi_class_list, DocRef(d))
              + (IF state.edi_class = DocRef(d) THEN 1 ELSE 0) = 1

\* the completed list after a handle_start, against the state it was handed
StartSealsOnce ==
    last.op = "handle_start" =>
        IF Truthy(last.before.edi_class)
        THEN /\ state.edi_class_list
                    = Append(last.before.edi_class_list, last.before.edi_class)
             /\ Truthy(state.edi_class)
             /\ state.edi_class # last.before.edi_class
             /\ state.edi_class \notin Range(state.edi_class_list)
        ELSE state.edi_class_list = last.before.edi_class_list

SealedParts ==
    UNION {Range(docs[state.edi_class_list[i].id].part_list) :
              i \in 1..Len(state.edi_class_list)}

\* C2: an Address or Accumulation segment handled after a new DocumentStart
\* and before the new Document's first PartDetails writes nothing to a Part
\* of an already sealed Document.
C2_SealedPartsFrozen ==
    [][((\/ \E segment \in AddressSegments : handle_address(segment)
         \/ \E segment \in AccumSegments : handle_accum(segment))
        /\ Truthy(state.edi_class)
        /\ docs[state.edi_class.id].part_list = <<>>)
       => \A p \in SealedParts : parts'[p.id] = parts[p.id]]_vars

\* C3: no handler other than handle_loop raises, and handle_loop raises only
\* for a document type without a start-segment mapping.
C3_OnlyLoopRaises ==
    (last.op # "__init__" /\ last.err # NoError)
        => /\ last.op = "handle_loop"
           /\ last.err = "KeyError"

\* the text a position designates in a segment, by the dialect's separators
SubelementsOf(text) == str_split(text, DEFAULT_SEPARATORS.X12.SUBELEMENT)
Designates(segment, p) ==
    /\ HasElement(segment, p.pos)
    /\ p.kind = "tuple" => p.subpos < Len(SubelementsOf(ElementAt(segment, p.pos)))
TextAt(segment, p) ==
    IF p.kind = "tuple" THEN SubelementsOf(ElementAt(segment, p.pos))[p.subpos + 1]
    ELSE ElementAt(segment, p.pos)
IsDate(text, fmt) == strptime(text, fmt).ok
Reformatted(text, fmt) == Str(strftime(strptime(text, fmt), FMT_OUT))
LastOf(seq) == seq[Len(seq)]

\* a Date conversion failure for the text, carrying both format strings
IsDateFailure(v, text, fin) ==
    /\ IsFailure(v)
    /\ v.failure_point = "Date conversion"
    /\ v.element = Str(text)
    /\ v.date_format_in = fin
    /\ v.date_format_out = FMT_OUT

\* C4: an Accumulation segment with qualifier "01" handled while a Part is
\* open sets last_received_ship_date from element 4 with date parsing; when
\* element 4 is not a valid date, a Date conversion failure is the newest
\* entry of the failure log and the quantity field holds the text of
\* element 2.
C4_AccumDateFailureLogged ==
    (/\ last.op = "handle_accum"
     /\ Truthy(last.before.part_record)
     /\ HasElement(last.args[1], 4)
     /\ ElementAt(last.args[1], 1) = <<"0", "1">>)
    => LET segment == last.args[1]
           part == parts[last.before.part_record.id]
       IN IF IsDate(ElementAt(segment, 4), FMT_Ymd)
          THEN part.last_received_ship_date = Reformatted(ElementAt(segment, 4), FMT_Ymd)
          ELSE /\ self.extraction_errors # <<>>
               /\ IsDateFailure(LastOf(self.extraction_errors), ElementAt(segment, 4), FMT_Ymd)
               /\ part.last_received_ship_quantity = Str(ElementAt(segment, 2))

\* a direct call of the extractor has returned
Returned == last.op = "universal_element_extract"

\* C5: a single-position request (an element index, or an element and a
\* subelement index) with the date option set, whose text does not match
\* the input format, returns a Date conversion failure carrying both format
\* strings and the unparsed element, logs it, and never returns the raw text.
C5_SinglePositionDateEnforced ==
    (/\ Returned
     /\ call.position.kind \in {"int", "tuple"}
     /\ call.date
     /\ Designates(call.segment, call.position)
     /\ ~IsDate(TextAt(call.segment, call.position), call.date_format_in))
    => /\ IsDateFailure(result, TextAt(call.segment, call.position), call.date_format_in)
       /\ self.extraction_errors = <<result>>

\* what a Named request owes one entry: a marked entry is a date, an
\* unmarked one raw text
EntryOwed(value, spec) ==
    LET p == IF spec.kind = "rec" THEN spec.pos ELSE spec
        text == TextAt(call.segment, p)
    IN Designates(call.segment, p) =>
           IF spec.kind = "rec" /\ spec.date = "True"
           THEN IF IsDate(text, call.date_format_in)
                THEN value = Reformatted(text, call.date_format_in)
                ELSE /\ IsDateFailure(value, text, call.date_format_in)
                     /\ value \in Range(self.extraction_errors)
           ELSE value = Str(text)

\* C6: in a Named request an entry carrying its own treat-as-date mark is
\* date-parsed and reformatted (a Date conversion failure, also logged,
\* when invalid), entries without the mark are returned as raw text, and
\* each label's result depends on its own entry only.
C6_NamedEntryDateMark ==
    (Returned /\ call.position.kind = "dict")
    => \A k \in 1..Len(call.position.items) :
           /\ result.items[k].key = call.position.items[k].key
           /\ EntryOwed(result.items[k].value, call.position.items[k].spec)

\* the positions a request asks for, in the order of the leaves returned
LeafRequests(position) ==
    IF position.kind = "list" THEN position.items
    ELSE IF position.kind = "dict"
         THEN [k \in 1..Len(position.items) |->
                  IF position.items[k].spec.kind = "rec"
                  THEN position.items[k].spec.pos
                  ELSE position.items[k].spec]
    ELSE <<position>>

\* what an out-of-range index owes the leaf returned for it
IndexFailureOwed(leaf, p) ==
    IF ~HasElement(call.segment, p.pos)
    THEN /\ IsFailure(leaf)
         /\ leaf.failure_point = "Element Index"
         /\ leaf.segment = call.segment
         /\ leaf.position = PyInt(p.pos)
    ELSE ~Designates(call.segment, p)
         => /\ IsFailure(leaf)
            /\ leaf.failure_point = "Subelement Index"
            /\ leaf.segment = call.segment
            /\ leaf.element = Str(ElementAt(call.segment, p.pos))
            /\ leaf.subposition = PyInt(p.subpos)
            /\ leaf.position = Tuple(p.pos, p.subpos)

\* C7: a requested element index beyond the segment's elements yields, at
\* that leaf, an Element Index failure with exactly the input segment and
\* the requested element index; an in-range element with an out-of-range
\* subelement index yields a Subelement Index failure carrying the extracted
\* element and both indices; the call returns.
C7_IndexFailureAtLeaf ==
    Returned
    => \A k \in 1..Len(LeafRequests(call.position)) :
           IndexFailureOwed(Leaves(result)[k], LeafRequests(call.position)[k])

\* C8: the failure log only grows at its end, and holds exactly the failure
\* objects returned at leaf positions so far, in the order they occurred.
C8_LogAppendOnly ==
    /\ [](self.extraction_errors = returned)
    /\ [][IsPrefix(self.extraction_errors, self'.extraction_errors)]_vars

\* two failures have been returned and logged, the later by a handler
C8_Witness ==
    /\ Len(self.extraction_errors) >= 2
    /\ last.op \in {"handle_envelope", "handle_inner", "handle_loop", "handle_start"}
    /\ \E i, j \in 1..Len(returned) : returned[i] # returned[j]

\* the document type of a LoopMarker segment has no start-segment mapping
Unmapped(segment) ==
    ~(HasElement(segment, 1) /\ ElementAt(segment, 1) \in DOMAIN START_SEGMENTS)

\* a handle_loop step on an unmapped document type raises and keeps the
\* start-segment code, the traversal state, the Documents and the Parts
LoopMissIsFatal ==
    \A segment \in ParserLoopSegments :
        (handle_loop(segment) /\ Unmapped(segment))
        => /\ last'.err = "KeyError"
           /\ self'.record_start_segment = self.record_start_segment
           /\ state' = state
           /\ docs' = docs
           /\ parts' = parts

\* C9: handle_loop on a document type without a start-segment mapping
\* raises to the caller and applies no default: record_start_segment, the
\* open Document, the completed list and the open Part are unchanged.
C9_LoopMissIsFatal == [][LoopMissIsFatal]_vars

\* the lookup missed after an earlier LoopMarker had switched the code
C9_Witness ==
    /\ last.op = "handle_loop"
    /\ last.err = "KeyError"
    /\ Unmapped(last.args[1])
    /\ self.record_start_segment = Str(START_SEGMENTS[<<"8", "5", "0">>])
    /\ Truthy(state.part_record)

\* the separator a constructor argument asks for
Wanted(arg, role) ==
    IF Truthy(arg) THEN Str(unicode_escape(arg.text)) ELSE Str(DEFAULT_SEPARATORS.X12[role])

\* C10: construction with a separator override succeeds; each overridden
\* separator is the escape-decoded override and every other one the
\* dialect default.
C10_SeparatorOverride ==
    (last.op = "__init__" /\ \E i \in 1..3 : Truthy(last.args[i]))
    => /\ last.err = NoError
       /\ self.element_separator = Wanted(last.args[1], "ELEMENT")
       /\ self.subelement_separator = Wanted(last.args[2], "SUBELEMENT")
       /\ self.segment_separator = Wanted(last.args[3], "SEGMENT")

\* the record-number index of a start-segment code, family by family
RecordNoIndexOf(code) ==
    IF code \in {<<"B", "F", "R">>, <<"B", "E", "G">>, <<"B", "A", "K">>, <<"B", "C", "H">>}
    THEN 3
    ELSE IF code \in {<<"B", "S", "N">>, <<"B", "S", "S">>, <<"B", "G", "N">>,
                      <<"A", "K", "1">>, <<"T", "R", "N">>}
    THEN 2
    ELSE IF code \in {<<"B", "R", "A">>, <<"B", "I", "G">>} THEN 1
    ELSE 0

\* C11: after handle_loop on a document type T of the start-segment table
\* the active start-segment code is the table entry for T, and the next
\* handle_start takes the record number from element 3, 2, 1 or 0 by the
\* family of that code; for T = "850" the code is BEG and the index 3.
C11_StartSegmentResolved ==
    /\ START_SEGMENTS[<<"8", "5", "0">>] = <<"B", "E", "G">>
    /\ (last.op = "handle_loop" /\ ElementAt(last.args[1], 1) \in DOMAIN START_SEGMENTS)
       => /\ last.err = NoError
          /\ self.record_start_segment = Str(START_SEGMENTS[ElementAt(last.args[1], 1)])
    /\ (last.op = "handle_start" /\ last.err = NoError /\ IsStr(self.document_type))
       => /\ self.record_start_segment = Str(START_SEGMENTS[self.document_type.text])
          /\ docs[state.edi_class.id].ref_no
                 = Str(ElementAt(last.args[1],
                                 RecordNoIndexOf(self.record_start_segment.text)))

\* a DocumentStart after the LoopMarker of an 850 took its record number
\* from element 3
C11_Witness ==
    /\ last.op = "handle_start"
    /\ last.err = NoError
    /\ self.document_type = Str(<<"8", "5", "0">>)
    /\ self.record_start_segment = Str(<<"B", "E", "G">>)
    /\ docs[state.edi_class.id].ref_no = Str(ElementAt(last.args[1], 3))

\* the version token of an InnerMessage segment
VersionToken(segment) == Prefix(ElementAt(segment, 8), 4)

\* the format handle_inner owes its segment
InnerSetsFormat ==
    (last.op = "handle_inner" /\ HasElement(last.args[1], 8))
    => /\ self.date_format
              = Fmt(IF VersionToken(last.args[1]) \in DOMAIN DATE_FORMATS
                    THEN DATE_FORMATS[VersionToken(last.args[1])]
                    ELSE FMT_Ymd)
       /\ VersionToken(last.args[1]) = <<"0", "0", "2", "0">>
              => self.date_format = Fmt(FMT_ymd)
       /\ VersionToken(last.args[1]) = <<"9", "9", "9", "9">>
              => self.date_format = Fmt(FMT_Ymd)

\* C12: after handle_inner the active date input format is the version
\* table's entry for the first four characters of element 8, %Y%m%d for a
\* token not in the table ("0020" gives %y%m%d, "9999" gives %Y%m%d), and
\* no call other than handle_inner changes it.
C12_InnerSetsDateFormat ==
    /\ []InnerSetsFormat
    /\ [][last'.op # "handle_inner" => self'.date_format = self.date_format]_vars

\* the format of version 0020 is still in force two calls after its
\* InnerMessage
C12_Witness ==
    /\ self.date_format = Fmt(FMT_ymd)
    /\ self.edi_version = Str(<<"0", "0", "2", "0">>)
    /\ last.op = "handle_accum"
    /\ Truthy(state.edi_class)

\* the date a handler owes for the text of a segment under the active format
ActiveDate(segment, i) == Reformatted(ElementAt(segment, i), self.date_format.name)
DatedAt(segment, i) ==
    /\ HasElement(segment, i)
    /\ IsDate(ElementAt(segment, i), self.date_format.name)

\* C18: handle_accum with no Part open is a no-op, for every Accumulation
\* segment including one too short to hold the qualifier: the traversal
\* state is unchanged and the failure log does not grow.
C18_AccumWithoutPartIsNoOp ==
    [][(last'.op = "handle_accum" /\ ~Truthy(state.part_record))
       => /\ state' = state
          /\ self'.extraction_errors = self.extraction_errors]_vars

\* C19: every date extracted after an InnerMessage is parsed with the
\* format that InnerMessage set: the issue date, the horizon start and end
\* dates of DocumentStart, and the Accumulation dates (last received ship
\* date, total-accumulation start and end dates).
C19_ActiveFormatUsedByLaterDates ==
    /\ (last.op = "handle_inner" /\ last.err = NoError /\ DatedAt(last.args[1], 4))
       => state.document_issue_date = ActiveDate(last.args[1], 4)
    /\ (last.op = "handle_start" /\ last.err = NoError
            /\ DatedAt(last.args[1], 6) /\ DatedAt(last.args[1], 7))
       => /\ docs[state.edi_class.id].horizon_start_date = ActiveDate(last.args[1], 6)
          /\ docs[state.edi_class.id].horizon_end_date = ActiveDate(last.args[1], 7)
    /\ (last.op = "handle_accum" /\ last.err = NoError
            /\ Truthy(last.before.part_record) /\ self.date_format # Unset
            /\ HasElement(last.args[1], 1))
       => /\ (ElementAt(last.args[1], 1) = <<"0", "1">> /\ DatedAt(last.args[1], 4))
             => parts[last.before.part_record.id].last_received_ship_date
                   = ActiveDate(last.args[1], 4)
          /\ (ElementAt(last.args[1], 1) = <<"0", "2">>
                 /\ DatedAt(last.args[1], 4) /\ DatedAt(last.args[1], 6))
             => /\ parts[last.before.part_record.id].total_accum_start_date
                      = ActiveDate(last.args[1], 4)
                /\ parts[last.before.part_record.id].total_accum_end_date
                      = ActiveDate(last.args[1], 6)

\* the qualifier of an Address segment denotes ship-to
IsShipTo(segment) == HasElement(segment, 1) /\ ElementAt(segment, 1) = <<"S", "T">>

\* C17: handle_address writes the open Part's plant only for the ship-to
\* qualifier with a current address and a current Part, and the value is
\* the text of element 4 of that segment; any other qualifier leaves the
\* active address and every Part unchanged.
C17_PlantOnlyFromShipTo ==
    [][last'.op = "handle_address"
       => /\ ~IsShipTo(last'.args[1])
             => (state'.address = state.address /\ parts' = parts)
          /\ parts' # parts
             => /\ IsShipTo(last'.args[1])
                /\ Truthy(state.part_record)
                /\ HasElement(last'.args[1], 4)
                /\ parts'[state.part_record.id].plant = Str(ElementAt(last'.args[1], 4))]_vars

\* C13: after the FileEnd handler runs with a Document open, no Document
\* is open and that Document is the last entry of the completed list, the
\* earlier entries unchanged; after any FileEnd every Document ever opened
\* is in the completed list exactly once.
C13_FileEndSealsOpenDocument ==
    last.op = "handle_end"
    => /\ ~Truthy(state.edi_class)
       /\ Truthy(last.before.edi_class)
          => /\ Len(state.edi_class_list) > 0
             /\ LastOf(state.edi_class_list) = last.before.edi_class
             /\ state.edi_class_list
                   = Append(last.before.edi_class_list, last.before.edi_class)
       /\ \A d \in 1..Len(docs) : Count(state.edi_class_list, DocRef(d)) = 1

\* a FileEnd that sealed the second Document of a parse
C13_Witness ==
    /\ last.op = "handle_end"
    /\ Truthy(last.before.edi_class)
    /\ Len(docs) = 2
    /\ state.edi_class_list = <<DocRef(1), DocRef(2)>>

\* the codes of the X12 dispatch roles
X12RoleCodes ==
    {<<"I", "S", "A">>, <<"G", "S">>, <<"B", "F", "R">>, <<"N", "1">>, <<"S", "T">>,
     <<"L", "I", "N">>, <<"S", "H", "P">>, <<"A", "T", "H">>, <<"F", "S", "T">>,
     <<"S", "E">>}
MatchesNoRole(segment) == \A code \in X12RoleCodes : ~IsPrefix(code, segment)

\* C14: feeding a segment whose leading code matches no role of the X12
\* dispatch table is a no-op: no handler runs, the traversal state and the
\* parser-scoped fields are unchanged and the failure log does not grow.
C14_UnmatchedSegmentIsNoOp ==
    [][MatchesNoRole(last'.args[1])
       => /\ last'.op = Unrecognized
          /\ UNCHANGED <<self, state, docs, parts, returned>>]_vars

\* a segment of no role skipped in the middle of a Document, with a Part
\* open and an address active
C14_Witness ==
    /\ last.op = Unrecognized
    /\ MatchesNoRole(last.args[1])
    /\ Truthy(state.edi_class)
    /\ Truthy(state.part_record)
    /\ Truthy(state.address)

\* the segment begins with the start-segment code in force
StartsWithActiveCode(segment) ==
    IF IsStr(self.record_start_segment)
    THEN IsPrefix(self.record_start_segment.text, segment)
    ELSE startswith(segment, self.record_start_segment)

\* the dispatch map's DocumentStart key holds the start-segment code in force
StartKeyIsActiveCode ==
    \E key \in DOMAIN self.DISPATCH_MAP :
        /\ self.DISPATCH_MAP[key] = "handle_start"
        /\ IF IsStr(self.record_start_segment)
           THEN key.items = <<self.record_start_segment.text>>
           ELSE key = self.record_start_segment

\* C16: the dispatch table follows the active segment-code table: in every
\* state of a constructed parser each of the nine roles has its handler,
\* the DocumentStart key is the start-segment code in force, and a fed
\* segment is routed to handle_start exactly when it begins with that code.
C16_DispatchFollowsSegmentTable ==
    Constructed
    => /\ Cardinality(DOMAIN self.DISPATCH_MAP) = 9
       /\ StartKeyIsActiveCode
       /\ last.op # "__init__"
          => (StartsWithActiveCode(last.args[1]) <=> last.op = "handle_start")

\* C20: for EDIFACT no segment is classified into InnerMessage,
\* Accumulation or Release, the roles without a segment of their own, and
\* the dispatch table has a distinct entry for each of the nine roles.
C20_EdifactEmptyRolesNeverMatch ==
    self.language = "EDIFACT"
    => /\ last.op = "classify"
          => result.handler \notin {"handle_inner", "handle_accum", "handle_release"}
       /\ Cardinality(DOMAIN self.DISPATCH_MAP) = 9

\* the result the same call returns for the one-entry list of position k
AloneAt(k) ==
    universal_element_extract(<<>>, call.segment, List(<<call.position.items[k]>>),
                              call.date, call.date_format_in, FMT_OUT).value.items[1]

\* C15: a List request of n positions returns a list of exactly n results,
\* and result k is what the segment and position k give on their own: a
\* failure at one position does not change, drop or shift another result.
C15_ListResultsIndependent ==
    (Returned /\ call.position.kind = "list")
    => /\ result.kind = "list"
       /\ Len(result.items) = Len(call.position.items)
       /\ \A k \in 1..Len(result.items) : result.items[k] = AloneAt(k)

\* a field without a value
NoValue(v) == v = Unset \/ v = None

\* C21: handle_start opens a new Document also when the segment has no
\* elements 6 and 7: the call does not fail, the new Document's horizon
\* start and end dates have no value, and its issue date is the one the most
\* recent InnerMessage captured.
C21_StartWithoutHorizonDates ==
    (/\ last.op = "handle_start"
     /\ self.date_format # Unset
     /\ ~HasElement(last.args[1], 6))
    => /\ last.err = NoError
       /\ Truthy(state.edi_class)
       /\ state.edi_class \notin Range(last.before.edi_class_list)
       /\ state.edi_class # last.before.edi_class
       /\ docs[state.edi_class.id].document_issue_date = state.document_issue_date
       /\ NoValue(docs[state.edi_class.id].horizon_start_date)
       /\ NoValue(docs[state.edi_class.id].horizon_end_date)

\* C22: on a fresh parser that has handled no LoopMarker, handle_start on a
\* BFR segment takes the Document's record number from element 3.
C22_DefaultStartRecordNumber ==
    (/\ last.op = "handle_start"
     /\ last.err = NoError
     /\ self.document_type = Unset
     /\ self.record_start_segment = EDI_SEGMENTS.X12.RECORD_START
     /\ IsPrefix(<<"B", "F", "R">>, last.args[1])
     /\ HasElement(last.args[1], 3))
    => docs[state.edi_class.id].ref_no = Str(ElementAt(last.args[1], 3))

====
